---- MODULE Spec2Model ----
(***************************************************************************)
(* Recruitment marketplace prototype (src/main.py): cookie sessions kept   *)
(* in an in-memory map, users / documents / job postings / messages kept   *)
(* in SQLite tables, and role-gated request handlers.                      *)
(*                                                                         *)
(* One action per request handler, with the request's cookie and form     *)
(* fields as parameters.  A handler is one atomic step: the handlers run   *)
(* on a single event loop and none of them yields between its reads and    *)
(* its writes of the state modelled here.  For every handler H the action  *)
(* H(...) is its effect on the state and H_response(...) is the response   *)
(* it returns, as a function of the state the request arrives in.          *)
(*                                                                         *)
(* Modelling decisions that are not visible in a single source line:       *)
(*  - main.py uses Depends without importing it; the routes are modelled   *)
(*    as if the name resolved to fastapi.Depends, i.e. the dependency runs *)
(*    before the handler body and its return value is bound to `user`.     *)
(*  - secrets.token_hex(16) is modelled as a draw among the 128-bit values *)
(*    it has not returned before (`issued`).                               *)
(*  - datetime.utcnow() is modelled as a clock whose successive readings   *)
(*    strictly increase (`clock` is the latest reading).                   *)
(*  - a table is a set of rows; a SELECT is a set filter, ORDER BY a sort. *)
(*  - `logged_out` is a history variable: the tokens a logout request has  *)
(*    presented while they were in `sessions`.                             *)
(*  - the server has just been started: `sessions` is empty, and the       *)
(*    database file holds the users that earlier runs registered.          *)
(***************************************************************************)
EXTENDS Naturals, Integers, Sequences, FiniteSets, TLC

VARIABLES users, documents, job_postings, messages, sessions, issued, clock,
          logged_out

vars == <<users, documents, job_postings, messages, sessions, issued, clock,
          logged_out>>

tables == <<users, documents, job_postings, messages>>

(* ---------------------------------------------------------------------- *)
(* Bounds of the model                                                    *)
MaxUsers == 4
MaxTokens == 2
MaxMessages == 2
MaxDocuments == 1
MaxJobs == 1

(* ---------------------------------------------------------------------- *)
(* Input domains                                                          *)
Usernames == {"ann", "bob", "cy", "dee"}
Passwords == {"pw1", "pw2"}
RoleInputs == {"candidate", "Recruiter", "admin"}
Roles == {"candidate", "recruiter"}
TokenNames == <<"t1", "t2", "t3", "t4">>
Tokens == {TokenNames[i] : i \in 1..(IF MaxTokens < 4 THEN MaxTokens ELSE 4)}
NoCookie == "<none>"
Cookies == {NoCookie, ""} \cup Tokens
Whitespace == {" "}
Contents == {<<" ">>, <<" ", "h", "i", " ">>}
Filenames == {"", "cv.pdf"}
NoParam == "<none>"

(* ---------------------------------------------------------------------- *)
(* Database helpers                                                       *)
NoUser == [id |-> 0, username |-> "", password_hash |-> "", role |-> ""]

FetchOne(rows) == IF rows = {} THEN NoUser ELSE CHOOSE r \in rows : TRUE

MaxOf(S) == IF S = {} THEN 0 ELSE CHOOSE x \in S : \A y \in S : y <= x

NextId(table) == MaxOf({r.id : r \in table}) + 1

\* UserById with the WHERE clause left out: the first row of the table
UserById_no_where(id) == FetchOne(users)

UserById(id) == FetchOne({u \in users : u.id = id})

UserByName(username) == FetchOne({u \in users : u.username = username})

UserByNameRole(username, role) ==
    FetchOne({u \in users : u.username = username /\ u.role = role})

\* ORDER BY key ASC / DESC; key is a function from the rows to numbers
RECURSIVE OrderByAsc(_, _)
OrderByAsc(rows, key) ==
    IF rows = {} THEN <<>>
    ELSE LET first == CHOOSE r \in rows : \A q \in rows : key[r] <= key[q]
         IN  <<first>> \o OrderByAsc(rows \ {first}, key)

RECURSIVE OrderByDesc(_, _)
OrderByDesc(rows, key) ==
    IF rows = {} THEN <<>>
    ELSE LET first == CHOOSE r \in rows : \A q \in rows : key[r] >= key[q]
         IN  <<first>> \o OrderByDesc(rows \ {first}, key)

\* position of a username in the text collation
UsernameRank(username) ==
    CASE username = "ann" -> 1 [] username = "bob" -> 2
      [] username = "cy" -> 3 [] username = "dee" -> 4 [] OTHER -> 0

\* datetime.utcnow(): the reading that follows the reading `prev`; only the
\* order of the readings is kept, not their distance
utcnow(prev) == prev + 1

(* ---------------------------------------------------------------------- *)
(* Session management                                                     *)
hash_password(password) ==
    CASE password = "pw1" -> "c592df4a"
      [] password = "pw2" -> "93915a0a"
      [] OTHER -> "e3b0c442"

get_current_user(cookie) ==
    IF cookie # NoCookie /\ cookie # "" /\ cookie \in DOMAIN sessions
    THEN UserById(sessions[cookie])
    ELSE NoUser

\* token_hex drawing a value it has returned before
token_hex_repeating == Tokens

token_hex == Tokens \ issued

create_session(session_id, user_id) ==
    /\ session_id \in token_hex
    /\ issued' = issued \cup {session_id}
    /\ sessions' = [t \in DOMAIN sessions \cup {session_id} |->
                       IF t = session_id THEN user_id ELSE sessions[t]]

lower(role) ==
    CASE role = "Recruiter" -> "recruiter"
      [] role = "Candidate" -> "candidate"
      [] OTHER -> role

\* normalize_role without the lower-casing
normalize_role_case_sensitive(role) ==
    IF role \in Roles THEN role ELSE "candidate"

normalize_role(role) ==
    IF lower(role) \in Roles THEN lower(role) ELSE "candidate"

RECURSIVE lstrip(_)
lstrip(s) == IF s # <<>> /\ Head(s) \in Whitespace THEN lstrip(Tail(s)) ELSE s

RECURSIVE rstrip(_)
rstrip(s) ==
    IF s # <<>> /\ s[Len(s)] \in Whitespace
    THEN rstrip(SubSeq(s, 1, Len(s) - 1)) ELSE s

strip(s) == rstrip(lstrip(s))

(* ---------------------------------------------------------------------- *)
(* Responses                                                              *)
Response ==
    [resp |-> "", target |-> "", target_with |-> NoParam,
     set_cookie |-> NoCookie, delete_cookie |-> FALSE, error |-> FALSE,
     user |-> NoUser, role |-> "", documents |-> <<>>, job_postings |-> <<>>,
     candidates |-> <<>>, selected_candidate |-> NoUser, partners |-> {},
     current_partner |-> NoUser, messages |-> <<>>]

TemplateResponse(name) == [Response EXCEPT !.resp = "template", !.target = name]

RedirectResponse(url) == [Response EXCEPT !.resp = "redirect", !.target = url]

RoleDashboard(role) ==
    IF role = "candidate" THEN "/candidate/dashboard" ELSE "/recruiter/dashboard"

\* `raise RedirectResponse(url=...)`: the response object is built and then
\* raised; RedirectResponse does not derive from BaseException, so the raise
\* statement itself fails with TypeError and the request ends as a server
\* error instead of the redirect.
RaiseRedirectResponse(url) == [Response EXCEPT !.resp = "error", !.target = "500"]

\* The dependency built by login_required(role): whether the handler body
\* runs, the user it gets, and the response when it does not run.
login_required(role, cookie) ==
    LET user == get_current_user(cookie) IN
    IF user = NoUser
    THEN [passed |-> FALSE, user |-> user,
          response |-> RaiseRedirectResponse("/login")]
    ELSE IF role # "" /\ user.role # role
    THEN [passed |-> FALSE, user |-> user,
          response |-> RaiseRedirectResponse(RoleDashboard(user.role))]
    ELSE [passed |-> TRUE, user |-> user, response |-> Response]

(* ---------------------------------------------------------------------- *)
(* Initial state: the module has just been imported                       *)
InitialUsers ==
    {[id |-> 1, username |-> "ann", password_hash |-> hash_password("pw1"),
      role |-> "candidate"],
     [id |-> 2, username |-> "bob", password_hash |-> hash_password("pw1"),
      role |-> "recruiter"],
     [id |-> 3, username |-> "cy", password_hash |-> hash_password("pw2"),
      role |-> "candidate"]}

Init ==
    /\ users = InitialUsers
    /\ documents = {}
    /\ job_postings = {}
    /\ messages = {}
    /\ sessions = << >>
    /\ issued = {}
    /\ clock = 0
    /\ logged_out = {}

(* ---------------------------------------------------------------------- *)
(* Public routes                                                          *)
home(cookie) == UNCHANGED vars

home_response(cookie) ==
    [TemplateResponse("home.html") EXCEPT !.user = get_current_user(cookie)]

register_form(role) == UNCHANGED vars

register_form_response(role) ==
    [TemplateResponse("register.html") EXCEPT !.role = normalize_role(role)]

\* register with INSERT OR REPLACE: a taken username replaces the existing row
register_or_replace(username, password, role_in, session_id) ==
    /\ Cardinality({u \in users : u.username # username}) < MaxUsers
    /\ users' = {u \in users : u.username # username} \cup
                    {[id |-> NextId(users), username |-> username,
                      password_hash |-> hash_password(password),
                      role |-> normalize_role(role_in)]}
    /\ create_session(session_id, NextId(users))
    /\ UNCHANGED <<documents, job_postings, messages, clock, logged_out>>

register(username, password, role_in, session_id) ==
    LET role == normalize_role(role_in) IN
    IF \E u \in users : u.username = username
    THEN \* sqlite3.IntegrityError: the UNIQUE constraint on users.username
         UNCHANGED vars
    ELSE /\ Cardinality(users) < MaxUsers
         /\ users' = users \cup {[id |-> NextId(users), username |-> username,
                                  password_hash |-> hash_password(password),
                                  role |-> role]}
         /\ create_session(session_id, NextId(users))
         /\ UNCHANGED <<documents, job_postings, messages, clock, logged_out>>

register_response(username, password, role_in, session_id) ==
    LET role == normalize_role(role_in) IN
    IF \E u \in users : u.username = username
    THEN [TemplateResponse("register.html") EXCEPT !.role = role, !.error = TRUE]
    ELSE [RedirectResponse(RoleDashboard(role)) EXCEPT !.set_cookie = session_id]

login_form == UNCHANGED vars

login_form_response == TemplateResponse("login.html")

\* login that only checks that the username exists
login_without_password(username, password, session_id) ==
    LET user == UserByName(username) IN
    IF user = NoUser
    THEN UNCHANGED vars
    ELSE /\ create_session(session_id, user.id)
         /\ UNCHANGED <<users, documents, job_postings, messages, clock, logged_out>>

login(username, password, session_id) ==
    LET user == UserByName(username) IN
    IF user = NoUser \/ user.password_hash # hash_password(password)
    THEN UNCHANGED vars
    ELSE /\ create_session(session_id, user.id)
         /\ UNCHANGED <<users, documents, job_postings, messages, clock, logged_out>>

login_response(username, password, session_id) ==
    LET user == UserByName(username) IN
    IF user = NoUser \/ user.password_hash # hash_password(password)
    THEN [TemplateResponse("login.html") EXCEPT !.error = TRUE]
    ELSE [RedirectResponse(RoleDashboard(user.role)) EXCEPT !.set_cookie = session_id]

\* logout that drops every session of the user who logs out
logout_everywhere(cookie) ==
    IF cookie # NoCookie /\ cookie # "" /\ cookie \in DOMAIN sessions
    THEN /\ sessions' = [t \in {x \in DOMAIN sessions : sessions[x] # sessions[cookie]}
                             |-> sessions[t]]
         /\ logged_out' = logged_out \cup {cookie}
         /\ UNCHANGED <<users, documents, job_postings, messages, issued, clock>>
    ELSE UNCHANGED vars

\* logout that clears the cookie but leaves the entry in the map
logout_keeping_session(cookie) ==
    IF cookie # NoCookie /\ cookie # "" /\ cookie \in DOMAIN sessions
    THEN /\ logged_out' = logged_out \cup {cookie}
         /\ UNCHANGED <<users, documents, job_postings, messages, sessions,
                        issued, clock>>
    ELSE UNCHANGED vars

logout(cookie) ==
    IF cookie # NoCookie /\ cookie # "" /\ cookie \in DOMAIN sessions
    THEN /\ sessions' = [t \in DOMAIN sessions \ {cookie} |-> sessions[t]]
         /\ logged_out' = logged_out \cup {cookie}
         /\ UNCHANGED <<users, documents, job_postings, messages, issued, clock>>
    ELSE UNCHANGED vars

logout_response(cookie) == [RedirectResponse("/") EXCEPT !.delete_cookie = TRUE]

(* ---------------------------------------------------------------------- *)
(* Candidate routes                                                       *)
DocumentsOf(user_id) ==
    LET rows == {d \in documents : d.user_id = user_id}
    IN  OrderByDesc(rows, [d \in rows |-> d.uploaded_at])

JobsWithRecruiter ==
    LET rows == {[id |-> j.id, title |-> j.title, description |-> j.description,
                  location |-> j.location, salary_range |-> j.salary_range,
                  created_at |-> j.created_at, recruiter_username |-> u.username] :
                    <<j, u>> \in {p \in job_postings \X users : p[1].recruiter_id = p[2].id}}
    IN  OrderByDesc(rows, [j \in rows |-> j.created_at])

candidate_dashboard(cookie) == UNCHANGED vars

candidate_dashboard_response(cookie) ==
    LET dep == login_required("candidate", cookie) IN
    IF ~dep.passed THEN dep.response
    ELSE [TemplateResponse("candidate_dashboard.html") EXCEPT
             !.user = dep.user, !.documents = DocumentsOf(dep.user.id),
             !.job_postings = JobsWithRecruiter]

splitext(filename) == IF filename = "cv.pdf" THEN ".pdf" ELSE ""

\* The bytes written under uploads/ and the random suffix of the stored name
\* are not modelled; the stored name keeps its directory, stamp and extension.
upload_document(cookie, filename) ==
    LET dep == login_required("candidate", cookie)
        t1 == utcnow(clock)
        t2 == utcnow(t1)
    IN
    IF ~dep.passed \/ filename = ""
    THEN UNCHANGED vars
    ELSE /\ Cardinality(documents) < MaxDocuments
         /\ documents' = documents \cup
                {[id |-> NextId(documents), user_id |-> dep.user.id,
                  filename |-> <<dep.user.id, t1, splitext(filename)>>,
                  original_name |-> filename, uploaded_at |-> t2]}
         /\ clock' = t2
         /\ UNCHANGED <<users, job_postings, messages, sessions, issued, logged_out>>

upload_document_response(cookie, filename) ==
    LET dep == login_required("candidate", cookie) IN
    IF ~dep.passed THEN dep.response
    ELSE RedirectResponse("/candidate/dashboard")

\* SELECT DISTINCT u.id, u.username FROM users u JOIN messages m ON (u.id =
\* m.sender_id OR u.id = m.receiver_id) WHERE ? IN (m.sender_id, m.receiver_id)
\* AND u.role = role AND u.id != ?
Partners(user_id, role) ==
    {[id |-> u.id, username |-> u.username] :
        u \in {v \in users :
                 /\ v.role = role
                 /\ v.id # user_id
                 /\ \E m \in messages :
                       /\ v.id \in {m.sender_id, m.receiver_id}
                       /\ user_id \in {m.sender_id, m.receiver_id}}}

\* Conversation whose WHERE clause does not constrain the partner
Conversation_any_partner(user_id, partner_id) ==
    LET joined == {p \in messages \X users \X users :
                      /\ p[1].sender_id = p[2].id
                      /\ p[1].receiver_id = p[3].id
                      /\ \/ p[1].sender_id = user_id
                         \/ p[1].receiver_id = user_id}
        rows == {[id |-> p[1].id, sender_id |-> p[1].sender_id,
                  receiver_id |-> p[1].receiver_id, content |-> p[1].content,
                  timestamp |-> p[1].timestamp, sender_username |-> p[2].username,
                  receiver_username |-> p[3].username] : p \in joined}
    IN  OrderByAsc(rows, [m \in rows |-> m.timestamp])

\* SELECT m.*, s.username, r.username FROM messages m JOIN users s ... JOIN
\* users r ... WHERE (sender = user AND receiver = partner) OR (sender =
\* partner AND receiver = user) ORDER BY m.timestamp ASC
Conversation(user_id, partner_id) ==
    LET joined == {p \in messages \X users \X users :
                      /\ p[1].sender_id = p[2].id
                      /\ p[1].receiver_id = p[3].id
                      /\ \/ p[1].sender_id = user_id /\ p[1].receiver_id = partner_id
                         \/ p[1].sender_id = partner_id /\ p[1].receiver_id = user_id}
        rows == {[id |-> p[1].id, sender_id |-> p[1].sender_id,
                  receiver_id |-> p[1].receiver_id, content |-> p[1].content,
                  timestamp |-> p[1].timestamp, sender_username |-> p[2].username,
                  receiver_username |-> p[3].username] : p \in joined}
    IN  OrderByAsc(rows, [m \in rows |-> m.timestamp])

\* the body shared by candidate_messages and recruiter_messages, which differ
\* in the role they require and the role of the partner they look up
messages_page(user, partner_role, with) ==
    LET current_partner == IF with # NoParam /\ with # ""
                           THEN UserByNameRole(with, partner_role) ELSE NoUser
    IN  [TemplateResponse("messages.html") EXCEPT
            !.user = user,
            !.partners = Partners(user.id, partner_role),
            !.current_partner = current_partner,
            !.messages = IF current_partner # NoUser
                         THEN Conversation(user.id, current_partner.id)
                         ELSE <<>>]

candidate_messages(cookie, with) == UNCHANGED vars

candidate_messages_response(cookie, with) ==
    LET dep == login_required("candidate", cookie) IN
    IF ~dep.passed THEN dep.response
    ELSE messages_page(dep.user, "recruiter", with)

\* send_message that looks the partner up by username only
send_message_any_role(user, partner_role, to_username, content) ==
    LET partner == UserByName(to_username)
        t == utcnow(clock)
    IN
    IF partner # NoUser /\ strip(content) # <<>>
    THEN /\ Cardinality(messages) < MaxMessages
         /\ messages' = messages \cup
                {[id |-> NextId(messages), sender_id |-> user.id,
                  receiver_id |-> partner.id, content |-> strip(content),
                  timestamp |-> t]}
         /\ clock' = t
         /\ UNCHANGED <<users, documents, job_postings, sessions, issued, logged_out>>
    ELSE UNCHANGED vars

\* the body shared by candidate_send_message and recruiter_send_message
send_message(user, partner_role, to_username, content) ==
    LET partner == UserByNameRole(to_username, partner_role)
        t == utcnow(clock)
    IN
    IF partner # NoUser /\ strip(content) # <<>>
    THEN /\ Cardinality(messages) < MaxMessages
         /\ messages' = messages \cup
                {[id |-> NextId(messages), sender_id |-> user.id,
                  receiver_id |-> partner.id, content |-> strip(content),
                  timestamp |-> t]}
         /\ clock' = t
         /\ UNCHANGED <<users, documents, job_postings, sessions, issued, logged_out>>
    ELSE UNCHANGED vars

candidate_send_message(cookie, to_username, content) ==
    LET dep == login_required("candidate", cookie) IN
    IF ~dep.passed THEN UNCHANGED vars
    ELSE send_message(dep.user, "recruiter", to_username, content)

candidate_send_message_response(cookie, to_username, content) ==
    LET dep == login_required("candidate", cookie) IN
    IF ~dep.passed THEN dep.response
    ELSE [RedirectResponse("/candidate/messages") EXCEPT !.target_with = to_username]

(* ---------------------------------------------------------------------- *)
(* Recruiter routes                                                       *)
JobsOf(user_id) ==
    LET rows == {j \in job_postings : j.recruiter_id = user_id}
    IN  OrderByDesc(rows, [j \in rows |-> j.created_at])

Candidates ==
    LET rows == {[id |-> u.id, username |-> u.username] :
                    u \in {v \in users : v.role = "candidate"}}
    IN  OrderByAsc(rows, [c \in rows |-> UsernameRank(c.username)])

recruiter_dashboard(cookie) == UNCHANGED vars

recruiter_dashboard_response(cookie) ==
    LET dep == login_required("recruiter", cookie) IN
    IF ~dep.passed THEN dep.response
    ELSE [TemplateResponse("recruiter_dashboard.html") EXCEPT
             !.user = dep.user, !.job_postings = JobsOf(dep.user.id),
             !.candidates = Candidates]

OrEmpty(value) == IF value = NoParam THEN "" ELSE value

create_job(cookie, title, description, location, salary_range) ==
    LET dep == login_required("recruiter", cookie)
        t == utcnow(clock)
    IN
    IF ~dep.passed THEN UNCHANGED vars
    ELSE /\ Cardinality(job_postings) < MaxJobs
         /\ job_postings' = job_postings \cup
                {[id |-> NextId(job_postings), recruiter_id |-> dep.user.id,
                  title |-> title, description |-> description,
                  location |-> OrEmpty(location),
                  salary_range |-> OrEmpty(salary_range), created_at |-> t]}
         /\ clock' = t
         /\ UNCHANGED <<users, documents, messages, sessions, issued, logged_out>>

create_job_response(cookie) ==
    LET dep == login_required("recruiter", cookie) IN
    IF ~dep.passed THEN dep.response
    ELSE RedirectResponse("/recruiter/dashboard")

recruiter_candidates(cookie, username) == UNCHANGED vars

recruiter_candidates_response(cookie, username) ==
    LET dep == login_required("recruiter", cookie)
        selected == IF username # NoParam /\ username # ""
                    THEN UserByNameRole(username, "candidate") ELSE NoUser
    IN
    IF ~dep.passed THEN dep.response
    ELSE [TemplateResponse("recruiter_candidates.html") EXCEPT
             !.user = dep.user, !.candidates = Candidates,
             !.selected_candidate = selected,
             !.documents = IF selected # NoUser THEN DocumentsOf(selected.id)
                           ELSE <<>>]

recruiter_messages(cookie, with) == UNCHANGED vars

recruiter_messages_response(cookie, with) ==
    LET dep == login_required("recruiter", cookie) IN
    IF ~dep.passed THEN dep.response
    ELSE messages_page(dep.user, "candidate", with)

recruiter_send_message(cookie, to_username, content) ==
    LET dep == login_required("recruiter", cookie) IN
    IF ~dep.passed THEN UNCHANGED vars
    ELSE send_message(dep.user, "candidate", to_username, content)

recruiter_send_message_response(cookie, to_username, content) ==
    LET dep == login_required("recruiter", cookie) IN
    IF ~dep.passed THEN dep.response
    ELSE [RedirectResponse("/recruiter/messages") EXCEPT !.target_with = to_username]

(* ---------------------------------------------------------------------- *)
(* Requests                                                               *)
WithParams == {NoParam, ""} \cup Usernames
JobLocations == {NoParam, "NYC"}

Next ==
    \/ \E cookie \in Cookies : home(cookie)
    \/ \E role \in RoleInputs : register_form(role)
    \/ \E username \in Usernames, password \in Passwords, role \in RoleInputs,
          session_id \in Tokens : register(username, password, role, session_id)
    \/ login_form
    \/ \E username \in Usernames, password \in Passwords, session_id \in Tokens :
          login(username, password, session_id)
    \/ \E cookie \in Cookies : logout(cookie)
    \/ \E cookie \in Cookies : candidate_dashboard(cookie)
    \/ \E cookie \in Cookies, filename \in Filenames :
          upload_document(cookie, filename)
    \/ \E cookie \in Cookies, with \in WithParams : candidate_messages(cookie, with)
    \/ \E cookie \in Cookies, to_username \in Usernames, content \in Contents :
          candidate_send_message(cookie, to_username, content)
    \/ \E cookie \in Cookies : recruiter_dashboard(cookie)
    \/ \E cookie \in Cookies, location \in JobLocations :
          create_job(cookie, "dev", "desc", location, NoParam)
    \/ \E cookie \in Cookies, username \in WithParams :
          recruiter_candidates(cookie, username)
    \/ \E cookie \in Cookies, with \in WithParams : recruiter_messages(cookie, with)
    \/ \E cookie \in Cookies, to_username \in Usernames, content \in Contents :
          recruiter_send_message(cookie, to_username, content)

Spec == Init /\ [][Next]_vars

(* ====================================================================== *)
(* Properties                                                             *)

\* C1: a token presented by a logout request while it is in the sessions map
\* is no longer in the map afterwards, and from then on every request that
\* presents it resolves to no user.
Claim1_LogoutDeletesToken ==
    \A t \in logged_out :
        /\ t \notin DOMAIN sessions
        /\ get_current_user(t) = NoUser
        /\ home_response(t).user = NoUser
        /\ ~login_required("", t).passed

Witness1_TokenLoggedOut ==
    /\ logged_out # {}
    /\ DOMAIN sessions # {}

\* C2: every successful login adds exactly one new token to the sessions map,
\* bound to the id of the user who logged in; that token is the one set in
\* the response cookie; the map grows by one and no existing entry changes.
Claim2_LoginAddsOneToken ==
    [][\/ UNCHANGED vars
       \/ \A username \in Usernames, password \in Passwords, session_id \in Tokens :
          LET response == login_response(username, password, session_id) IN
          (/\ response.resp = "redirect"
           /\ login(username, password, session_id)) =>
              /\ response.set_cookie \in Tokens
              /\ response.set_cookie \notin DOMAIN sessions
              /\ DOMAIN sessions' = DOMAIN sessions \cup {response.set_cookie}
              /\ Cardinality(DOMAIN sessions') = Cardinality(DOMAIN sessions) + 1
              /\ \E u \in users : /\ u.username = username
                                  /\ sessions'[response.set_cookie] = u.id
              /\ \A t \in DOMAIN sessions : sessions'[t] = sessions[t]]_vars

Witness2_LoginBesideExistingSession ==
    \E t1 \in DOMAIN sessions, t2 \in DOMAIN sessions :
        /\ t1 # t2
        /\ sessions[t1] \in {u.id : u \in InitialUsers}
        /\ sessions[t2] \in {u.id : u \in InitialUsers}

\* C5: get_current_user returns a user if and only if the request carries a
\* token that is a key of the sessions map, and then the user returned is the
\* one the token was bound to by create_session; with no cookie, an empty
\* cookie, an unknown or a logged-out token it returns None.  A binding, once
\* made, is not changed while the token stays in the map.
Claim5_ResolveSession ==
    /\ [](\A cookie \in Cookies :
            LET user == get_current_user(cookie) IN
            /\ (user # NoUser) <=> (cookie \in Tokens /\ cookie \in DOMAIN sessions)
            /\ user # NoUser => /\ user \in users
                                /\ user.id = sessions[cookie]
            /\ cookie \in {NoCookie, ""} \cup (Tokens \ issued) \cup logged_out
                  => user = NoUser)
    /\ [][\A t \in DOMAIN sessions \cap DOMAIN sessions' :
             sessions'[t] = sessions[t]]_vars
    /\ [][\A t \in DOMAIN sessions' \ DOMAIN sessions :
             \E u \in users' : /\ create_session(t, u.id)
                                /\ get_current_user(t)' = u]_vars

Witness5_ResolvedAndUnresolved ==
    /\ \E t \in Tokens : get_current_user(t) # NoUser
    /\ \E t \in logged_out : get_current_user(t) = NoUser

CredentialsValid(username, password) ==
    \E u \in users : u.username = username /\ u.password_hash = hash_password(password)

\* C6: a login request creates a session if and only if the username exists
\* and the hash of the submitted password equals the stored hash; otherwise
\* it returns the login form with an error, sets no cookie and leaves the
\* sessions map and the users table unchanged.
Claim6_LoginVerifiesCredentials ==
    /\ [](\A username \in Usernames, password \in Passwords, session_id \in Tokens :
            LET response == login_response(username, password, session_id) IN
            IF CredentialsValid(username, password)
            THEN response.resp = "redirect" /\ response.set_cookie = session_id
            ELSE /\ response.resp = "template"
                 /\ response.target = "login.html"
                 /\ response.error
                 /\ response.set_cookie = NoCookie)
    /\ [][\/ UNCHANGED <<sessions, users>>
          \/ \A username \in Usernames, password \in Passwords, session_id \in Tokens :
                ~(/\ ~CredentialsValid(username, password)
                  /\ login(username, password, session_id))]_vars
    /\ [][\/ UNCHANGED vars
          \/ \A username \in Usernames, password \in Passwords, session_id \in Tokens :
             (/\ CredentialsValid(username, password)
              /\ login(username, password, session_id))
                 => /\ session_id \notin DOMAIN sessions
                    /\ session_id \in DOMAIN sessions']_vars

Witness6_WrongPasswordPossibleAfterLogin ==
    \E t \in DOMAIN sessions, u \in InitialUsers :
        /\ sessions[t] = u.id
        /\ \E password \in Passwords : ~CredentialsValid(u.username, password)

\* C7: usernames are unique in every reachable state; a registration with a
\* username that already exists returns the registration form with an error,
\* creates no user and no session, and leaves every existing user's password
\* hash and role unchanged.
Claim7_RegisterUsernameFree ==
    /\ [](\A u1 \in users, u2 \in users :
            (u1.username = u2.username \/ u1.id = u2.id) => u1 = u2)
    /\ [](\A username \in Usernames, password \in Passwords, role \in RoleInputs,
             session_id \in Tokens :
            LET response == register_response(username, password, role, session_id) IN
            (\E u \in users : u.username = username) =>
                /\ response.resp = "template"
                /\ response.target = "register.html"
                /\ response.error
                /\ response.set_cookie = NoCookie)
    /\ [][\/ UNCHANGED <<users, sessions>>
          \/ \A username \in Usernames, password \in Passwords, role \in RoleInputs,
                session_id \in Tokens :
                ~(/\ \E u \in users : u.username = username
                  /\ register(username, password, role, session_id))]_vars
    /\ [][users \subseteq users']_vars

Witness7_TakenUsernames ==
    /\ users \ InitialUsers # {}
    /\ \A username \in Usernames : \E u \in users : u.username = username

ExpectedRole(role) ==
    CASE role \in {"candidate", "Candidate"} -> "candidate"
      [] role \in {"recruiter", "Recruiter"} -> "recruiter"
      [] OTHER -> "candidate"

\* C8: a successful registration adds exactly one user, whose role is the
\* submitted role lower-cased when that is 'candidate' or 'recruiter' and
\* 'candidate' otherwise, creates one session token bound to the new user's
\* id and redirects to that role's dashboard; every user in every reachable
\* state has role 'candidate' or 'recruiter'.
Claim8_RegisterLogsIn ==
    /\ [](\A u \in users : u.role \in {"candidate", "recruiter"})
    /\ [][\/ UNCHANGED vars
          \/ \A username \in Usernames, password \in Passwords, role \in RoleInputs,
                session_id \in Tokens :
                LET response == register_response(username, password, role, session_id) IN
                register(username, password, role, session_id)
                 => /\ \E u \in users' \ users :
                          /\ users' = users \cup {u}
                          /\ u.username = username
                          /\ u.password_hash = hash_password(password)
                          /\ u.role = ExpectedRole(role)
                          /\ DOMAIN sessions' = DOMAIN sessions \cup {session_id}
                          /\ session_id \notin DOMAIN sessions
                          /\ sessions'[session_id] = u.id
                          /\ \A t \in DOMAIN sessions : sessions'[t] = sessions[t]
                          /\ response.resp = "redirect"
                          /\ response.set_cookie = session_id
                          /\ response.target =
                                IF u.role = "candidate" THEN "/candidate/dashboard"
                                ELSE "/recruiter/dashboard"]_vars

Witness8_RegisteredRecruiterLoggedIn ==
    \E u \in users \ InitialUsers, t \in DOMAIN sessions :
        /\ u.role = "recruiter"
        /\ sessions[t] = u.id

Blank(content) == \A i \in 1..Len(content) : content[i] \in Whitespace

OppositeRole(role) == IF role = "candidate" THEN "recruiter" ELSE "candidate"

\* the step is a send request of a user of role `role` presenting `cookie`
SendStep(role, cookie, to_username, content) ==
    IF role = "candidate"
    THEN candidate_send_message(cookie, to_username, content)
    ELSE recruiter_send_message(cookie, to_username, content)

\* C9: every stored message has a sender and a receiver of opposite roles and
\* a content that is non-empty after stripping whitespace; a message is added
\* only by a send request, and its sender is the user that request's session
\* resolved to; a send request whose to_username names no existing user of
\* the opposite role, or whose content is blank, adds no message.
Claim9_MessagesBetweenOppositeRoles ==
    /\ [](\A m \in messages :
            /\ \E s \in users, r \in users :
                  /\ s.id = m.sender_id
                  /\ r.id = m.receiver_id
                  /\ {s.role, r.role} = {"candidate", "recruiter"}
            /\ ~Blank(m.content))
    /\ [][\/ messages' = messages
          \/ /\ \E m \in messages' : messages' = messages \cup {m} /\ m \notin messages
             /\ \E role \in Roles, cookie \in Tokens, to_username \in Usernames,
                   content \in Contents : SendStep(role, cookie, to_username, content)
             /\ \A role \in Roles, cookie \in Cookies, to_username \in Usernames,
                   content \in Contents :
                   SendStep(role, cookie, to_username, content) =>
                      /\ cookie \in DOMAIN sessions
                      /\ \A m \in messages' \ messages : m.sender_id = sessions[cookie]
                      /\ \E s \in users : s.id = sessions[cookie] /\ s.role = role
                      /\ \E u \in users : /\ u.username = to_username
                                          /\ u.role = OppositeRole(role)
                      /\ ~Blank(content)]_vars

Witness9_MessagesBothWays ==
    \E m1 \in messages, m2 \in messages, c \in users, r \in users :
        /\ c.role = "candidate" /\ r.role = "recruiter"
        /\ m1.sender_id = c.id /\ m1.receiver_id = r.id
        /\ m2.sender_id = r.id /\ m2.receiver_id = c.id
        /\ m1.content = <<"h", "i">>

\* what the messages page must show to the user `user_id` for the query
\* parameter `with`, the partner being looked up among the users of
\* `partner_role`
ConversationShown(response, user_id, with, partner_role) ==
    LET partner == {u \in users : u.username = with /\ u.role = partner_role}
        shown == response.messages
    IN
    IF partner = {} THEN shown = <<>>
    ELSE \A p \in partner :
            LET between == {m \in messages :
                               \/ m.sender_id = user_id /\ m.receiver_id = p.id
                               \/ m.sender_id = p.id /\ m.receiver_id = user_id}
            IN  /\ Len(shown) = Cardinality(between)
                /\ \A m \in between : \E i \in 1..Len(shown) :
                      /\ shown[i].id = m.id
                      /\ shown[i].sender_id = m.sender_id
                      /\ shown[i].receiver_id = m.receiver_id
                      /\ shown[i].content = m.content
                      /\ shown[i].timestamp = m.timestamp
                /\ \A i \in 1..Len(shown) :
                      {shown[i].sender_id, shown[i].receiver_id} = {user_id, p.id}
                /\ \A i \in 1..Len(shown), j \in 1..Len(shown) :
                      i < j => /\ shown[i].timestamp <= shown[j].timestamp
                               /\ shown[i].id < shown[j].id

\* C10: the conversation shown by the candidate and the recruiter messages
\* page for partner P is exactly the stored messages whose (sender, receiver)
\* is (user, P) or (P, user), in ascending timestamp order, so that a message
\* sent earlier is shown before one sent later and no message with a third
\* user is shown; when 'with' is absent or names no user of the opposite
\* role the conversation is empty.
Claim10_ConversationShown ==
    \A cookie \in Tokens, with \in WithParams :
        cookie \in DOMAIN sessions =>
        LET c == candidate_messages_response(cookie, with)
            r == recruiter_messages_response(cookie, with)
        IN  /\ c.resp = "template" =>
                  ConversationShown(c, sessions[cookie], with, "recruiter")
            /\ r.resp = "template" =>
                  ConversationShown(r, sessions[cookie], with, "candidate")
            /\ c.resp = "template" \/ r.resp = "template"

Witness10_TwoMessagesInOrder ==
    \E cookie \in DOMAIN sessions, with \in Usernames :
        LET shown == recruiter_messages_response(cookie, with).messages IN
        /\ Len(shown) = 2
        /\ shown[1].sender_id # shown[2].sender_id
        /\ shown[1].timestamp < shown[2].timestamp

CandidateRouteResponses(cookie) ==
    {candidate_dashboard_response(cookie)}
    \cup {upload_document_response(cookie, f) : f \in Filenames}
    \cup {candidate_messages_response(cookie, w) : w \in WithParams}
    \cup {candidate_send_message_response(cookie, u, c) : u \in Usernames, c \in Contents}

RecruiterRouteResponses(cookie) ==
    {recruiter_dashboard_response(cookie), create_job_response(cookie)}
    \cup {recruiter_candidates_response(cookie, w) : w \in WithParams}
    \cup {recruiter_messages_response(cookie, w) : w \in WithParams}
    \cup {recruiter_send_message_response(cookie, u, c) : u \in Usernames, c \in Contents}

\* the step is a request to a candidate route that writes a row
CandidateWrite(cookie) ==
    \/ \E f \in Filenames : upload_document(cookie, f)
    \/ \E u \in Usernames, c \in Contents : candidate_send_message(cookie, u, c)

\* the step is a request to a recruiter route that writes a row
RecruiterWrite(cookie) ==
    \/ \E l \in JobLocations : create_job(cookie, "dev", "desc", l, NoParam)
    \/ \E u \in Usernames, c \in Contents : recruiter_send_message(cookie, u, c)

\* a request to a protected route without a session in the map adds no
\* document, job posting or message
NoSessionNoWrite ==
    [][\/ UNCHANGED tables
       \/ \A cookie \in Cookies :
             cookie \notin DOMAIN sessions =>
                ~(CandidateWrite(cookie) \/ RecruiterWrite(cookie))]_vars

\* C3: for every protected route, a request with no session cookie or with a
\* token that is not in the sessions map yields a redirect to /login, and the
\* handler body does not run: no document, job posting or message is added.
Claim3_NoSessionRedirectsToLogin ==
    /\ [](\A cookie \in Cookies :
            cookie \notin DOMAIN sessions =>
                \A response \in CandidateRouteResponses(cookie)
                                   \cup RecruiterRouteResponses(cookie) :
                    response.resp = "redirect" /\ response.target = "/login")
    /\ NoSessionNoWrite

RoleOf(cookie) == (CHOOSE u \in users : u.id = sessions[cookie]).role

\* a request to a route of the other role never performs the route's action
WrongRoleNoWrite ==
    [][\/ UNCHANGED tables
       \/ \A cookie \in DOMAIN sessions :
             /\ RoleOf(cookie) = "candidate" => ~RecruiterWrite(cookie)
             /\ RoleOf(cookie) = "recruiter" => ~CandidateWrite(cookie)]_vars

\* C4: for every protected route that requires role R, a request whose
\* session resolves to a user of the other role yields a redirect to that
\* caller's own dashboard and never performs the route's action.
Claim4_WrongRoleRedirectsToOwnDashboard ==
    /\ [](\A cookie \in DOMAIN sessions :
            /\ RoleOf(cookie) = "candidate" =>
                  \A response \in RecruiterRouteResponses(cookie) :
                      /\ response.resp = "redirect"
                      /\ response.target = "/candidate/dashboard"
            /\ RoleOf(cookie) = "recruiter" =>
                  \A response \in CandidateRouteResponses(cookie) :
                      /\ response.resp = "redirect"
                      /\ response.target = "/recruiter/dashboard")
    /\ WrongRoleNoWrite

\* C11: a session token, once created, keeps resolving to the same user until
\* a logout request presents that very token: no other step (a login or a
\* registration, a logout with another or an unknown token, a failed login,
\* a protected route) removes or rebinds it, so a user may hold several valid
\* tokens and logging out of one leaves the others valid.
Claim11_TokenKeptUntilItsLogout ==
    [][\/ UNCHANGED <<sessions, users>>
       \/ \A t \in DOMAIN sessions :
             \/ /\ t \in DOMAIN sessions'
                /\ sessions'[t] = sessions[t]
                /\ get_current_user(t) # NoUser
                /\ get_current_user(t)' = get_current_user(t)
             \/ logout(t)]_vars

Witness11_TwoTokensOfOneUser ==
    \E t1 \in DOMAIN sessions, t2 \in DOMAIN sessions :
        /\ t1 # t2
        /\ sessions[t1] = sessions[t2]
        /\ get_current_user(t1) = get_current_user(t2)
        /\ get_current_user(t1) # NoUser

====
